---- MODULE Spec2Model ----
(***************************************************************************)
(* The recency-ordered playback navigation of twitch-box: the per-user     *)
(* history lists kept in Redis (providers package, Twitch and Mixer) and   *)
(* the four navigation commands Play, Next, Resume and Previous of both    *)
(* stream providers.                                                       *)
(*                                                                         *)
(* A channel is identified by a number (the Twitch stream's UserID, the    *)
(* Mixer channel's ID); NoChan is the empty string / nil pointer.  The     *)
(* live list of a request is the sequence of channel identifiers that the  *)
(* platform returned for it, in the platform's order.                      *)
(***************************************************************************)
EXTENDS Integers, Sequences, FiniteSets, TLC

\* ---- bounds of the model ----
NumUsers == 2
NumChan == 3
MaxLive == 3
MaxSteps == 4
TickStep == 43200
MaxSetup == 2
MaxServed == 3
MaxVariants == 3

\* ---- program constants ----
TTLFull == 86400
NoChan == 0

Users == 1..NumUsers
Chans == 1..NumChan
Platforms == {"twitch", "mixer"}
Keys == Platforms \X Users

PLAY == "PLAY"
RESUME == "RESUME"
PREVIOUS == "PREVIOUS"
NEXT == "NEXT"

\* the external call that fails during a request ("none": all succeed);
\* "store" is the connection to Redis failing for every command of the request
Faults == {"none", "user", "follows", "live", "chanUser", "rendErr", "rendEmpty", "store"}

LiveLists == UNION {[1..n -> Chans] : n \in 0..MaxLive}

\* ---- error values returned by the providers ----
NoErr == "nil"
ErrTwitchAccount == "There was an error loading your Twitch account, please try again later."
ErrTwitchFollows == "Failed to load your follows from Twitch, please try again later"
ErrTwitchNoLive == "Sorry, it looks like none of your followed channels are live right now"
ErrTwitchNotStreaming == "It looks like that user isn't streaming right now. "
ErrTwitchNoPrevious == "It looks like none of your previously listened streams are live right now"
ErrTwitchFollowedUser == "Failed to find a followed stream, please try again later"
ErrTwitchStreamURL == "Failed to find a stream URL, please try again later"
ErrPanic == "panic: runtime error: invalid memory address or nil pointer dereference"
ErrMixerInfo == "Failed to load your Mixer information, please try again later"
ErrMixerDecode == "json: cannot unmarshal"
ErrMixerNoOnline == "No online channels"
ErrMixerResumeUser == "Unable to get your user information from Mixer"
ErrMixerNoRecentResume == "You have no recently listened streams to resume"
ErrMixerResumeFollows == "An error occurred trying to resume your last stream"
ErrMixerNoneLive == "None of your recent streams are still live"
ErrMixerAccount == "There was an error finding your Mixer account"
ErrMixerNoRecent == "There are no recent streams to be played"
ErrMixerPrevious == "An error occurred trying to play the previous steram"
ErrZeroVariants == "Zero stream variants found"
ErrDecode == "m3u8: decode failed"

VARIABLES redis, last, steps, sincePush, running

vars == <<redis, last, steps, sincePush, running>>

\* ---- the Redis list commands the providers send ----
Absent == [list |-> <<>>, ttl |-> 0]

\* (variant: the user id is left out of the name of the list)
ListNameOfPlatform(platform, userID) == <<platform, 1>>

\* "twitch_recent_streams:<id>", "mixer_recent_streams:<id>"
ListName(platform, userID) == <<platform, userID>>

\* (variant: the list is left as it is)
LREMKeepsAll(db, key, value) == db

\* LREM key 0 value: removes every occurrence; an emptied list is deleted
LREM(db, key, value) ==
    LET l == SelectSeq(db[key].list, LAMBDA x : x # value)
    IN  [db EXCEPT ![key] = IF l = <<>> THEN Absent ELSE [@ EXCEPT !.list = l]]

\* (variant: RPUSH, the value is put at the tail)
LPUSHAtTail(db, key, value) == [db EXCEPT ![key].list = @ \o <<value>>]

LPUSH(db, key, value) == [db EXCEPT ![key].list = <<value>> \o @]

\* (variant: EXPIRE ... NX, a remaining TTL is left as it is)
EXPIREIfNone(db, key, seconds) ==
    IF db[key].list = <<>> \/ db[key].ttl # 0 THEN db ELSE [db EXCEPT ![key].ttl = seconds]

EXPIRE(db, key, seconds) ==
    IF db[key].list = <<>> THEN db ELSE [db EXCEPT ![key].ttl = seconds]

\* (variant: RPOP, the last element is taken off)
LPOPAtTail(db, key) ==
    IF Len(db[key].list) <= 1 THEN [db EXCEPT ![key] = Absent]
    ELSE [db EXCEPT ![key].list = SubSeq(@, 1, Len(@) - 1)]

LPOP(db, key) ==
    IF Len(db[key].list) <= 1 THEN [db EXCEPT ![key] = Absent]
    ELSE [db EXCEPT ![key].list = Tail(@)]

\* (variant: LINDEX key -1, the last element)
LINDEX0FromTail(db, key) ==
    IF db[key].list = <<>> THEN NoChan ELSE db[key].list[Len(db[key].list)]

\* LINDEX key 0; redis.String turns the nil reply into "" and an error
LINDEX0(db, key) == IF db[key].list = <<>> THEN NoChan ELSE Head(db[key].list)

LRANGE(db, key) == db[key].list

\* ---- Twitch history store ----
\* (variant: the LREM is left out of the transaction)
SaveUsersCurrentStreamNoRemove(db, user, stream) ==
    IF user = NoChan \/ stream = NoChan THEN db
    ELSE LET listName == ListName("twitch", user)
         IN  EXPIRE(LPUSH(db, listName, stream), listName, TTLFull)

\* (variant: only the user is checked for nil)
SaveUsersCurrentStreamUserOnly(db, user, stream) ==
    IF user = NoChan THEN db
    ELSE LET listName == ListName("twitch", user)
         IN  EXPIRE(LPUSH(LREM(db, listName, stream), listName, stream), listName, TTLFull)

\* a nil user or a nil stream is NoChan
SaveUsersCurrentStream(db, user, stream) ==
    IF user = NoChan \/ stream = NoChan THEN db
    ELSE LET listName == ListName("twitch", user)
         IN  EXPIRE(LPUSH(LREM(db, listName, stream), listName, stream), listName, TTLFull)

getRecentStreamUserIDs(db, user) == LRANGE(db, ListName("twitch", user))

getCurrentStreamUserID(db, user) == LINDEX0(db, ListName("twitch", user))

\* (variant: an EXPIRE follows the LPOP)
removeCurrentStreamExpires(db, user) ==
    LET listName == ListName("twitch", user)
        db1 == EXPIRE(LPOP(db, listName), listName, TTLFull)
    IN  [uid |-> LINDEX0(db1, listName), db |-> db1]

\* (variant: the reply of LPOP, the removed head, is returned)
removeCurrentStreamPopped(db, user) ==
    LET listName == ListName("twitch", user)
    IN  [uid |-> LINDEX0(db, listName), db |-> LPOP(db, listName)]

\* returns the new head and the store after the pop
removeCurrentStream(db, user) ==
    LET listName == ListName("twitch", user)
        db1 == LPOP(db, listName)
    IN  [uid |-> LINDEX0(db1, listName), db |-> db1]

\* ---- Mixer history store ----
\* (variant: the LREM is left out of the transaction)
saveRecentStreamNoRemove(db, userID, channelID) ==
    LET listName == ListName("mixer", userID)
    IN  EXPIRE(LPUSH(db, listName, channelID), listName, TTLFull)

saveRecentStream(db, userID, channelID) ==
    LET listName == ListName("mixer", userID)
    IN  EXPIRE(LPUSH(LREM(db, listName, channelID), listName, channelID), listName, TTLFull)

findRecentStreams(db, userID) == LRANGE(db, ListName("mixer", userID))

\* (variant: the buffered LREM never reaches the server)
removeRecentStreamNotSent(db, userID, channelID) == db

\* the LREM is buffered by Send and written when the pooled connection is
\* closed at the end of the function; no EXPIRE is sent
removeRecentStream(db, userID, channelID) == LREM(db, ListName("mixer", userID), channelID)

\* ---- the selection of a stream variant ----
\* a quality label (Variant.Video) and a requested quality are strings, written
\* as sequences of characters; a variant is known by its index (from 1) in
\* playlist.Variants, NoVariant is the nil *m3u8.Variant
NoVariant == 0

audio_only == <<"a", "u", "d", "i", "o", "_", "o", "n", "l", "y">>

VideoLabels ==
    {audio_only,
     <<"7", "2", "0", "p", "6", "0">>,
     <<"7", "2", "0", "p", "3", "0">>,
     <<"1", "0", "8", "0", "p", "6", "0">>,
     <<"4", "8", "0", "p", "3", "0">>}

\* the values of streamQuality: "audio_only" and "720p" (Twitch), "audio-only"
\* (Mixer, the prefix of no label), and the empty string (the prefix of every
\* label)
StreamQualities ==
    {audio_only,
     <<"7", "2", "0", "p">>,
     <<"a", "u", "d", "i", "o", "-", "o", "n", "l", "y">>,
     <<>>}

Playlists == UNION {[1..n -> VideoLabels] : n \in 0..MaxVariants}

\* strings.HasPrefix
HasPrefix(str, prefix) ==
    Len(prefix) <= Len(str) /\ SubSeq(str, 1, Len(prefix)) = prefix

\* (variant: the loop goes on after a match, the last match is kept)
RECURSIVE variantLoopNoBreak(_, _, _, _)
variantLoopNoBreak(variants, streamQuality, i, found) ==
    IF i > Len(variants) THEN found
    ELSE variantLoopNoBreak(variants, streamQuality, i + 1,
             [streamVariant |-> IF HasPrefix(variants[i], streamQuality)
                                THEN i ELSE found.streamVariant,
              audioOnlyVariant |-> IF variants[i] = audio_only
                                   THEN i ELSE found.audioOnlyVariant])

\* the for loop over playlist.Variants, from index i on; found holds
\* streamVariant and audioOnlyVariant
RECURSIVE variantLoop(_, _, _, _)
variantLoop(variants, streamQuality, i, found) ==
    IF i > Len(variants) THEN found
    ELSE LET audioOnlyVariant == IF variants[i] = audio_only
                                 THEN i ELSE found.audioOnlyVariant
         IN  IF HasPrefix(variants[i], streamQuality)
             THEN [streamVariant |-> i, audioOnlyVariant |-> audioOnlyVariant]
             ELSE variantLoop(variants, streamQuality, i + 1,
                              [found EXCEPT !.audioOnlyVariant = audioOnlyVariant])

\* (variant: no fallback to the last variant)
fallbackVariantNoLast(variants, found) ==
    IF found.streamVariant # NoVariant THEN found.streamVariant
    ELSE found.audioOnlyVariant

\* (variant: no audio_only step, the last variant is the only fallback)
fallbackVariantLastOnly(variants, found) ==
    IF found.streamVariant # NoVariant THEN found.streamVariant
    ELSE Len(variants)

\* the fallbacks after the loop
fallbackVariant(variants, found) ==
    IF found.streamVariant # NoVariant THEN found.streamVariant
    ELSE IF found.audioOnlyVariant # NoVariant THEN found.audioOnlyVariant
    ELSE Len(variants)

\* Mixer: nil for an empty playlist
findBestVariant(variants, streamQuality) ==
    IF Len(variants) = 0 THEN NoVariant
    ELSE fallbackVariant(variants,
             variantLoop(variants, streamQuality, 1,
                         [streamVariant |-> NoVariant, audioOnlyVariant |-> NoVariant]))

FindStreamWithChannel(variants, streamQuality, decodes) ==
    IF ~decodes THEN [variant |-> NoVariant, err |-> ErrDecode]
    ELSE [variant |-> findBestVariant(variants, streamQuality), err |-> NoErr]

\* Twitch: an error for an empty playlist
GetStream(variants, streamQuality, decodes) ==
    IF ~decodes THEN [variant |-> NoVariant, err |-> ErrDecode]
    ELSE IF Len(variants) = 0 THEN [variant |-> NoVariant, err |-> ErrZeroVariants]
    ELSE [variant |-> fallbackVariant(variants,
                          variantLoop(variants, streamQuality, 1,
                                      [streamVariant |-> NoVariant,
                                       audioOnlyVariant |-> NoVariant])),
          err |-> NoErr]

\* the playlist that the rendition provider returns during a request
Renditions(fault) ==
    IF fault = "rendEmpty" THEN <<>>
    ELSE <<<<"7", "2", "0", "p", "6", "0">>, audio_only>>

\* the streamQuality of the Mixer calls, "audio-only"
audio_dash_only == <<"a", "u", "d", "i", "o", "-", "o", "n", "l", "y">>

\* ---- Twitch navigator ----
RECURSIVE scanForStreamer(_, _, _, _)
scanForStreamer(uid, haystack, i, needle) ==
    IF i > Len(haystack) THEN needle
    ELSE scanForStreamer(uid, haystack, i + 1, IF haystack[i] = uid THEN i - 1 ELSE needle)

\* (variant: the scan stops at the first match)
RECURSIVE scanForFirstStreamer(_, _, _)
scanForFirstStreamer(uid, haystack, i) ==
    IF i > Len(haystack) THEN -1
    ELSE IF haystack[i] = uid THEN i - 1
    ELSE scanForFirstStreamer(uid, haystack, i + 1)

findIndexForStreamerFirst(uid, haystack) == scanForFirstStreamer(uid, haystack, 1)

\* (variant: the scan starts from index 0 instead of -1)
findIndexForStreamerFromZero(uid, haystack) == scanForStreamer(uid, haystack, 1, 0)

\* index (from 0) of the last element equal to uid, -1 when there is none
findIndexForStreamer(uid, haystack) == scanForStreamer(uid, haystack, 1, -1)

\* (variant: every iteration calls removeCurrentStream twice)
RECURSIVE previousLoopTwice(_, _, _)
previousLoopTwice(db, user, liveStreams) ==
    LET r == removeCurrentStream(removeCurrentStream(db, user).db, user)
        currentStreamIndex == findIndexForStreamer(r.uid, liveStreams)
    IN  IF r.uid = NoChan
        THEN [stream |-> NoChan, err |-> ErrTwitchNoPrevious, db |-> r.db, pops |-> 2]
        ELSE IF currentStreamIndex # -1
             THEN [stream |-> liveStreams[currentStreamIndex + 1], err |-> NoErr, db |-> r.db,
                   pops |-> 2]
             ELSE [previousLoopTwice(r.db, user, liveStreams) EXCEPT !.pops = @ + 2]

\* the for loop of the PREVIOUS branch; pops counts the calls of removeCurrentStream
RECURSIVE previousLoop(_, _, _)
previousLoop(db, user, liveStreams) ==
    LET r == removeCurrentStream(db, user)
        currentStreamIndex == findIndexForStreamer(r.uid, liveStreams)
    IN  IF r.uid = NoChan
        THEN [stream |-> NoChan, err |-> ErrTwitchNoPrevious, db |-> r.db, pops |-> 1]
        ELSE IF currentStreamIndex # -1
             THEN [stream |-> liveStreams[currentStreamIndex + 1], err |-> NoErr, db |-> r.db,
                   pops |-> 1]
             ELSE [previousLoop(r.db, user, liveStreams) EXCEPT !.pops = @ + 1]

\* (variant: Next stays on the last stream of the list instead of wrapping)
FindStreamForCommandNoWrap(db, user, liveStreams, command) ==
    IF command = PLAY THEN [stream |-> liveStreams[1], err |-> NoErr, db |-> db]
    ELSE IF command = RESUME \/ command = NEXT
    THEN LET streamerUserID == getCurrentStreamUserID(db, user)
             currentStreamIndex == findIndexForStreamer(streamerUserID, liveStreams)
             index == IF streamerUserID = NoChan THEN 0
                      ELSE IF command = NEXT
                           THEN IF currentStreamIndex <= Len(liveStreams) - 2
                                THEN currentStreamIndex + 1 ELSE currentStreamIndex
                           ELSE currentStreamIndex
         IN  IF streamerUserID # NoChan /\ currentStreamIndex = -1
             THEN [stream |-> NoChan, err |-> ErrTwitchNotStreaming, db |-> db]
             ELSE [stream |-> liveStreams[index + 1], err |-> NoErr, db |-> db]
    ELSE IF command = PREVIOUS THEN previousLoop(db, user, liveStreams)
    ELSE [stream |-> liveStreams[1], err |-> NoErr, db |-> db]

\* liveStreams is not empty (checked by the caller)
FindStreamForCommand(db, user, liveStreams, command) ==
    IF command = PLAY THEN [stream |-> liveStreams[1], err |-> NoErr, db |-> db]
    ELSE IF command = RESUME \/ command = NEXT
    THEN LET streamerUserID == getCurrentStreamUserID(db, user)
             currentStreamIndex == findIndexForStreamer(streamerUserID, liveStreams)
             index == IF streamerUserID = NoChan THEN 0
                      ELSE IF command = NEXT
                           THEN IF currentStreamIndex <= Len(liveStreams) - 2
                                THEN currentStreamIndex + 1 ELSE 0
                           ELSE currentStreamIndex
         IN  IF streamerUserID # NoChan /\ currentStreamIndex = -1
             THEN [stream |-> NoChan, err |-> ErrTwitchNotStreaming, db |-> db]
             ELSE [stream |-> liveStreams[index + 1], err |-> NoErr, db |-> db]
    ELSE IF command = PREVIOUS THEN previousLoop(db, user, liveStreams)
    ELSE [stream |-> liveStreams[1], err |-> NoErr, db |-> db]

Failure(db, sel, err) ==
    [db |-> db, sel |-> sel, ret |-> NoChan, variant |-> FALSE, err |-> err]

Success(db, sel, ret, variant) ==
    [db |-> db, sel |-> sel, ret |-> ret, variant |-> variant, err |-> NoErr]

\* (variant: the first live stream is saved, whatever stream was selected)
genericGetStreamSavesFirstLive(db, user, cmd, liveStreams, fault) ==
    IF fault = "user" THEN Failure(db, NoChan, ErrTwitchAccount)
    ELSE IF fault = "follows" THEN Failure(db, NoChan, ErrTwitchFollows)
    ELSE IF fault = "live" THEN Failure(db, NoChan, ErrPanic)
    ELSE IF Len(liveStreams) <= 0 THEN Failure(db, NoChan, ErrTwitchNoLive)
    ELSE LET r == FindStreamForCommand(db, user, liveStreams, cmd)
         IN  IF r.err # NoErr THEN Failure(r.db, NoChan, r.err)
             ELSE IF fault = "chanUser" THEN Failure(r.db, r.stream, ErrTwitchFollowedUser)
             ELSE IF GetStream(Renditions(fault), audio_only, fault # "rendErr").err # NoErr
                  THEN Failure(r.db, r.stream, ErrTwitchStreamURL)
             ELSE Success(SaveUsersCurrentStream(r.db, user, liveStreams[1]), r.stream,
                          r.stream, TRUE)

\* (variant: the selected stream is saved before its playlist is fetched)
genericGetStreamSavesFirst(db, user, cmd, liveStreams, fault) ==
    IF fault = "user" THEN Failure(db, NoChan, ErrTwitchAccount)
    ELSE IF fault = "follows" THEN Failure(db, NoChan, ErrTwitchFollows)
    ELSE IF fault = "live" THEN Failure(db, NoChan, ErrPanic)
    ELSE IF Len(liveStreams) <= 0 THEN Failure(db, NoChan, ErrTwitchNoLive)
    ELSE LET r == FindStreamForCommand(db, user, liveStreams, cmd)
             saved == SaveUsersCurrentStream(r.db, user, r.stream)
         IN  IF r.err # NoErr THEN Failure(r.db, NoChan, r.err)
             ELSE IF fault = "chanUser" THEN Failure(saved, r.stream, ErrTwitchFollowedUser)
             ELSE IF GetStream(Renditions(fault), audio_only, fault # "rendErr").err # NoErr
                  THEN Failure(saved, r.stream, ErrTwitchStreamURL)
             ELSE Success(saved, r.stream, r.stream, TRUE)

\* (variant: Previous goes to the history before the live list is looked at)
genericGetStreamHistoryFirst(db, user, cmd, liveStreams, fault) ==
    IF fault = "user" THEN Failure(db, NoChan, ErrTwitchAccount)
    ELSE IF fault = "follows" THEN Failure(db, NoChan, ErrTwitchFollows)
    ELSE IF fault = "live" THEN Failure(db, NoChan, ErrPanic)
    ELSE IF Len(liveStreams) <= 0 /\ cmd # PREVIOUS THEN Failure(db, NoChan, ErrTwitchNoLive)
    ELSE LET r == FindStreamForCommand(db, user, liveStreams, cmd)
         IN  IF r.err # NoErr THEN Failure(r.db, NoChan, r.err)
             ELSE IF fault = "chanUser" THEN Failure(r.db, r.stream, ErrTwitchFollowedUser)
             ELSE IF GetStream(Renditions(fault), audio_only, fault # "rendErr").err # NoErr
                  THEN Failure(r.db, r.stream, ErrTwitchStreamURL)
             ELSE Success(SaveUsersCurrentStream(r.db, user, r.stream), r.stream, r.stream, TRUE)

genericGetStream(db, user, cmd, liveStreams, fault) ==
    IF fault = "user" THEN Failure(db, NoChan, ErrTwitchAccount)
    ELSE IF fault = "follows" THEN Failure(db, NoChan, ErrTwitchFollows)
    ELSE IF fault = "live" THEN Failure(db, NoChan, ErrPanic)
    ELSE IF Len(liveStreams) <= 0 THEN Failure(db, NoChan, ErrTwitchNoLive)
    ELSE LET r == FindStreamForCommand(db, user, liveStreams, cmd)
         IN  IF r.err # NoErr THEN Failure(r.db, NoChan, r.err)
             ELSE IF fault = "chanUser" THEN Failure(r.db, r.stream, ErrTwitchFollowedUser)
             ELSE IF GetStream(Renditions(fault), audio_only, fault # "rendErr").err # NoErr
                  THEN Failure(r.db, r.stream, ErrTwitchStreamURL)
             ELSE Success(SaveUsersCurrentStream(r.db, user, r.stream), r.stream, r.stream, TRUE)

\* ---- Mixer navigator ----
Range(s) == {s[i] : i \in 1..Len(s)}

RECURSIVE insertAscending(_, _)
insertAscending(x, s) ==
    IF s = <<>> THEN <<x>>
    ELSE IF x < Head(s) THEN <<x>> \o s
    ELSE <<Head(s)>> \o insertAscending(x, Tail(s))

\* (variant: the channels are left in the order of the response)
AscendingChannelsIDsUnsorted(channels) == channels

\* sort.Sort(AscendingChannelsIDs(channels))
RECURSIVE AscendingChannelsIDs(_)
AscendingChannelsIDs(channels) ==
    IF channels = <<>> THEN <<>>
    ELSE insertAscending(Head(channels), AscendingChannelsIDs(Tail(channels)))

\* whether the Stream gets a Variant: the error of FindStreamWithChannel is
\* dropped, a failing or empty manifest leaves the Variant nil
mixerVariant(fault) ==
    FindStreamWithChannel(Renditions(fault), audio_dash_only, fault # "rendErr").variant
        # NoVariant

\* (variant: the last channel of the response is taken)
MixerPlayLast(db, user, channels, fault) ==
    IF fault = "user" THEN Failure(db, NoChan, ErrMixerInfo)
    ELSE IF fault = "follows" THEN Failure(db, NoChan, ErrMixerDecode)
    ELSE IF Len(channels) <= 0 THEN Failure(db, NoChan, ErrMixerNoOnline)
    ELSE LET channel == channels[Len(channels)]
         IN  Success(saveRecentStream(db, user, channel), channel, channel, mixerVariant(fault))

MixerPlay(db, user, channels, fault) ==
    IF fault = "user" THEN Failure(db, NoChan, ErrMixerInfo)
    ELSE IF fault = "follows" THEN Failure(db, NoChan, ErrMixerDecode)
    ELSE IF Len(channels) <= 0 THEN Failure(db, NoChan, ErrMixerNoOnline)
    ELSE LET channel == channels[1]
         IN  Success(saveRecentStream(db, user, channel), channel, channel, mixerVariant(fault))

\* (variant: no wrap-around after the last channel)
RECURSIVE nextScanNoWrap(_, _, _, _)
nextScanNoWrap(current, channels, i, channel) ==
    IF i > Len(channels) THEN channel
    ELSE nextScanNoWrap(current, channels, i + 1,
                        IF channels[i] = current /\ i + 1 <= Len(channels)
                        THEN channels[i + 1]
                        ELSE channel)

\* the for loop over the sorted channels: the last match decides
RECURSIVE nextScan(_, _, _, _)
nextScan(current, channels, i, channel) ==
    IF i > Len(channels) THEN channel
    ELSE nextScan(current, channels, i + 1,
                  IF channels[i] = current
                  THEN IF i + 1 <= Len(channels) THEN channels[i + 1] ELSE channels[1]
                  ELSE channel)

\* rnd is the value of rand.Intn(len(channels))
MixerNext(db, user, followed, fault, rnd) ==
    IF fault = "user" THEN Failure(db, NoChan, ErrMixerInfo)
    ELSE IF fault = "follows" THEN Failure(db, NoChan, ErrMixerDecode)
    ELSE LET channels == AscendingChannelsIDs(followed)
             recents == findRecentStreams(db, user)
             found == IF Len(recents) # 0 THEN nextScan(recents[1], channels, 1, NoChan)
                      ELSE channels[1]
             channel == IF found = NoChan THEN channels[rnd + 1] ELSE found
         IN  IF Len(channels) <= 0 THEN Failure(db, NoChan, ErrMixerNoOnline)
             ELSE Success(saveRecentStream(db, user, channel), channel, channel,
                          mixerVariant(fault))

\* (variant: only the head of the history is looked up)
resumeLoopHeadOnly(db, user, recentChannelIDs, follows) ==
    LET mostRecent == recentChannelIDs[1]
        db1 == removeRecentStream(db, user, mostRecent)
    IN  IF Len(recentChannelIDs) <= 0 THEN [found |-> FALSE, resumeChannel |-> NoChan, db |-> db]
        ELSE IF mostRecent \in Range(follows)
        THEN [found |-> TRUE, resumeChannel |-> mostRecent, db |-> db1]
        ELSE [found |-> FALSE, resumeChannel |-> NoChan, db |-> db1]

\* the for loop of Resume: every examined entry is removed, the found one too
RECURSIVE resumeLoop(_, _, _, _)
resumeLoop(db, user, recentChannelIDs, follows) ==
    IF Len(recentChannelIDs) <= 0 THEN [found |-> FALSE, resumeChannel |-> NoChan, db |-> db]
    ELSE LET mostRecent == recentChannelIDs[1]
             db1 == removeRecentStream(db, user, mostRecent)
         IN  IF mostRecent \in Range(follows)
             THEN [found |-> TRUE, resumeChannel |-> mostRecent, db |-> db1]
             ELSE resumeLoop(db1, user, Tail(recentChannelIDs), follows)

\* a successful Resume ends in "return nil, nil": no Stream is returned
MixerResume(db, user, follows, fault) ==
    LET recentChannelIDs == findRecentStreams(db, user)
        r == resumeLoop(db, user, recentChannelIDs, follows)
    IN  IF fault = "user" THEN Failure(db, NoChan, ErrMixerResumeUser)
        ELSE IF Len(recentChannelIDs) <= 0 THEN Failure(db, NoChan, ErrMixerNoRecentResume)
        ELSE IF fault = "follows" THEN Failure(db, NoChan, ErrMixerResumeFollows)
        ELSE IF ~r.found THEN Failure(r.db, NoChan, ErrMixerNoneLive)
        ELSE Success(saveRecentStream(r.db, user, r.resumeChannel), r.resumeChannel,
                     NoChan, FALSE)

\* (variant: an entry that is not online is skipped but not removed)
RECURSIVE previousScanKeeps(_, _, _, _)
previousScanKeeps(db, user, recentChannelIDs, online) ==
    IF recentChannelIDs = <<>> THEN [targetChannel |-> NoChan, db |-> db, pops |-> 0]
    ELSE LET channelID == Head(recentChannelIDs)
         IN  IF channelID \notin online
             THEN previousScanKeeps(db, user, Tail(recentChannelIDs), online)
             ELSE [targetChannel |-> channelID, db |-> db, pops |-> 0]

\* the for loop of Previous; online is the set of channels that FindChannelByID
\* reports with Online = true; pops counts the calls of removeRecentStream
RECURSIVE previousScan(_, _, _, _)
previousScan(db, user, recentChannelIDs, online) ==
    IF recentChannelIDs = <<>> THEN [targetChannel |-> NoChan, db |-> db, pops |-> 0]
    ELSE LET channelID == Head(recentChannelIDs)
         IN  IF channelID \notin online
             THEN [previousScan(removeRecentStream(db, user, channelID), user,
                                Tail(recentChannelIDs), online) EXCEPT !.pops = @ + 1]
             ELSE [targetChannel |-> channelID, db |-> db, pops |-> 0]

\* the calls of removeRecentStream of one Previous: the head, then the loop
mixerPreviousPops(db, user, live) ==
    LET recentChannelIDs == findRecentStreams(db, user)
        db1 == removeRecentStream(db, user, recentChannelIDs[1])
    IN  IF Len(recentChannelIDs) <= 1 THEN 0
        ELSE 1 + previousScan(db1, user, Tail(recentChannelIDs), Range(live)).pops

\* the calls of removeCurrentStream of one Previous
twitchPreviousPops(db, user, liveStreams) ==
    IF Len(liveStreams) <= 0 THEN 0 ELSE previousLoop(db, user, liveStreams).pops

MixerPrevious(db, user, live, fault) ==
    LET recentChannelIDs == findRecentStreams(db, user)
        db1 == removeRecentStream(db, user, recentChannelIDs[1])
        online == IF fault = "chanUser" THEN {} ELSE Range(live)
        r == previousScan(db1, user, Tail(recentChannelIDs), online)
    IN  IF fault = "user" THEN Failure(db, NoChan, ErrMixerAccount)
        ELSE IF Len(recentChannelIDs) <= 1 THEN Failure(db, NoChan, ErrMixerNoRecent)
        ELSE IF r.targetChannel = NoChan THEN Failure(r.db, NoChan, ErrMixerNoRecent)
        ELSE IF FindStreamWithChannel(Renditions(fault), audio_dash_only,
                                      fault # "rendErr").err # NoErr
             THEN Failure(r.db, r.targetChannel, ErrMixerPrevious)
        ELSE Success(saveRecentStream(r.db, user, r.targetChannel), r.targetChannel,
                     r.targetChannel, mixerVariant(fault))

\* ---- time: TTLs run down, an expired list is deleted ----
\* sincePush[key] is the time in seconds since the last Push onto the list,
\* counted up to the 24 hours of TTLFull (never pushed: TTLFull)
Elapse(since, seconds) ==
    [k \in Keys |-> IF since[k] + seconds >= TTLFull THEN TTLFull ELSE since[k] + seconds]

Expire(db, seconds) ==
    [k \in Keys |-> IF db[k].ttl > seconds
                    THEN [db[k] EXCEPT !.ttl = @ - seconds]
                    ELSE Absent]

\* ---- a failing connection to Redis ----
\* (variant: the reads of the request succeed all the same)
storeReadReal(db, fault) == db

\* what the reads of a request get: on a failing connection every reply is an
\* error, which the store functions log and turn into "" or an empty slice,
\* as if no list existed
storeRead(db, fault) ==
    IF fault = "store" THEN [k \in Keys |-> Absent] ELSE db

\* the store after the request: on a failing connection no command arrived
storeWritten(db, fault, res) == IF fault = "store" THEN db ELSE res.db

\* ---- the state machine ----
\* last is the call in progress and its return value, until the caller has
\* taken it; NoRequest when no call is in progress.  pre and prettl are the
\* list and the remaining TTL of the caller's key when the call began
NoRequest ==
    [plat |-> "none", cmd |-> "none", user |-> 0, live |-> <<>>, pre |-> <<>>,
     prettl |-> 0, fault |-> "none", sel |-> NoChan, ret |-> NoChan, variant |-> FALSE, err |-> NoErr, out |-> <<>>]

Idle == last.cmd = "none"

\* running holds the two requests of one user that are served at the same
\* time (see the section on concurrent requests); NoRace when there are none
Procs == {1, 2}

NoProc ==
    [pc |-> "idle", cmd |-> "none", sel |-> NoChan, todo |-> <<>>, txn |-> 0, err |-> NoErr]

\* selected[k] is the set of channels that the requests which returned without
\* an error have selected for the list k (kept where requests are logged);
\* start and sels belong to a run of Next requests, one after the other: the
\* head of the history at its start and the channels selected so far (NoChan
\* for a request that failed)
NoRace ==
    [plat |-> "none", live |-> <<>>, proc |-> [p \in Procs |-> NoProc], lastPush |-> NoChan,
     start |-> NoChan, sels |-> <<>>, selected |-> [k \in Keys |-> {}]]

Ready == Idle /\ steps < MaxSteps

Init ==
    /\ redis = [k \in Keys |-> Absent]
    /\ last = NoRequest
    /\ steps = 0
    /\ sincePush = [k \in Keys |-> TTLFull]
    /\ running = NoRace

\* one navigation request, from its arrival to its return value
Request(plat, cmd, user, live, fault, res) ==
    /\ Ready
    /\ redis' = storeWritten(redis, fault, res)
    /\ last' = [plat |-> plat, cmd |-> cmd, user |-> user, live |-> live,
                pre |-> redis[ListName(plat, user)].list,
                prettl |-> redis[ListName(plat, user)].ttl,
                fault |-> fault,
                sel |-> res.sel, ret |-> res.ret, variant |-> res.variant,
                err |-> res.err, out |-> <<>>]
    /\ steps' = steps + 1
    /\ sincePush' = IF res.err = NoErr /\ fault # "store"
                    THEN [sincePush EXCEPT ![ListName(plat, user)] = 0]
                    ELSE sincePush
    /\ UNCHANGED running

TwitchPlay(user, live, fault) ==
    Request("twitch", PLAY, user, live, fault,
            genericGetStream(storeRead(redis, fault), user, PLAY, live, fault))

TwitchNext(user, live, fault) ==
    Request("twitch", NEXT, user, live, fault,
            genericGetStream(storeRead(redis, fault), user, NEXT, live, fault))

TwitchResume(user, live, fault) ==
    Request("twitch", RESUME, user, live, fault,
            genericGetStream(storeRead(redis, fault), user, RESUME, live, fault))

TwitchPrevious(user, live, fault) ==
    Request("twitch", PREVIOUS, user, live, fault,
            genericGetStream(storeRead(redis, fault), user, PREVIOUS, live, fault))

MixerClientPlay(user, live, fault) ==
    Request("mixer", PLAY, user, live, fault,
            MixerPlay(storeRead(redis, fault), user, live, fault))

MixerClientNext(user, live, fault) ==
    \E rnd \in 0..(IF Len(live) = 0 THEN 0 ELSE Len(live) - 1) :
        Request("mixer", NEXT, user, live, fault,
            MixerNext(storeRead(redis, fault), user, live, fault, rnd))

MixerClientResume(user, live, fault) ==
    Request("mixer", RESUME, user, live, fault,
            MixerResume(storeRead(redis, fault), user, live, fault))

MixerClientPrevious(user, live, fault) ==
    Request("mixer", PREVIOUS, user, live, fault,
            MixerPrevious(storeRead(redis, fault), user, live, fault))

\* StartAudioStream takes the provider's (stream, err) and answers the device
StartAudioStream ==
    /\ ~Idle
    /\ last' = NoRequest
    /\ UNCHANGED <<redis, steps, sincePush, running>>

\* time passes between two requests
Tick(seconds) ==
    /\ Ready
    /\ redis' = Expire(redis, seconds)
    /\ sincePush' = Elapse(sincePush, seconds)
    /\ steps' = steps + 1
    /\ UNCHANGED running
    /\ UNCHANGED last

\* the navigation requests with every provider call succeeding
Next ==
    \/ Ready /\ \E user \in Users, live \in LiveLists : TwitchPlay(user, live, "none")
    \/ Ready /\ \E user \in Users, live \in LiveLists : TwitchNext(user, live, "none")
    \/ Ready /\ \E user \in Users, live \in LiveLists : TwitchResume(user, live, "none")
    \/ Ready /\ \E user \in Users, live \in LiveLists : TwitchPrevious(user, live, "none")
    \/ Ready /\ \E user \in Users, live \in LiveLists : MixerClientPlay(user, live, "none")
    \/ Ready /\ \E user \in Users, live \in LiveLists : MixerClientNext(user, live, "none")
    \/ Ready /\ \E user \in Users, live \in LiveLists : MixerClientResume(user, live, "none")
    \/ Ready /\ \E user \in Users, live \in LiveLists : MixerClientPrevious(user, live, "none")
    \/ StartAudioStream
    \/ Tick(TickStep)

Spec == Init /\ [][Next]_vars

\* the navigation requests with any one provider call failing, or none
NextFault ==
    \/ Ready /\ \E user \in Users, live \in LiveLists, fault \in Faults :
                    TwitchPlay(user, live, fault)
    \/ Ready /\ \E user \in Users, live \in LiveLists, fault \in Faults :
                    TwitchNext(user, live, fault)
    \/ Ready /\ \E user \in Users, live \in LiveLists, fault \in Faults :
                    TwitchResume(user, live, fault)
    \/ Ready /\ \E user \in Users, live \in LiveLists, fault \in Faults :
                    TwitchPrevious(user, live, fault)
    \/ Ready /\ \E user \in Users, live \in LiveLists, fault \in Faults :
                    MixerClientPlay(user, live, fault)
    \/ Ready /\ \E user \in Users, live \in LiveLists, fault \in Faults :
                    MixerClientNext(user, live, fault)
    \/ Ready /\ \E user \in Users, live \in LiveLists, fault \in Faults :
                    MixerClientResume(user, live, fault)
    \/ Ready /\ \E user \in Users, live \in LiveLists, fault \in Faults :
                    MixerClientPrevious(user, live, fault)
    \/ StartAudioStream
    \/ Tick(TickStep)

SpecFault == Init /\ [][NextFault]_vars

\* ---- the history store called directly (as the package's tests do) ----
StoreCall(plat, cmd, user, arg, db, ret, out) ==
    /\ Ready
    /\ redis' = db
    /\ last' = [plat |-> plat, cmd |-> cmd, user |-> user, live |-> <<>>,
                pre |-> redis[ListName(plat, user)].list,
                prettl |-> redis[ListName(plat, user)].ttl,
                fault |-> "none",
                sel |-> arg, ret |-> ret, variant |-> FALSE, err |-> NoErr, out |-> out]
    /\ steps' = steps + 1
    /\ sincePush' = IF cmd \in {"SaveUsersCurrentStream", "saveRecentStream"}
                    THEN [sincePush EXCEPT ![ListName(plat, user)] = 0]
                    ELSE sincePush
    /\ UNCHANGED running

CallSaveUsersCurrentStream(user, stream) ==
    StoreCall("twitch", "SaveUsersCurrentStream", user, stream,
              SaveUsersCurrentStream(redis, user, stream), NoChan, <<>>)

\* SaveUsersCurrentStream(nil, stream) and SaveUsersCurrentStream(user, nil)
CallSaveUsersCurrentStreamWithNil(user, stream) ==
    /\ Ready
    /\ user = NoChan \/ stream = NoChan
    /\ redis' = SaveUsersCurrentStream(redis, user, stream)
    /\ last' = [NoRequest EXCEPT
                   !.plat = "twitch",
                   !.cmd = "SaveUsersCurrentStreamWithNil",
                   !.user = user,
                   !.sel = stream,
                   !.pre = IF user = NoChan THEN <<>> ELSE redis[ListName("twitch", user)].list,
                   !.prettl = IF user = NoChan THEN 0 ELSE redis[ListName("twitch", user)].ttl]
    /\ steps' = steps + 1
    /\ UNCHANGED <<sincePush, running>>

CallSaveRecentStream(userID, channelID) ==
    StoreCall("mixer", "saveRecentStream", userID, channelID,
              saveRecentStream(redis, userID, channelID), NoChan, <<>>)

CallRemoveCurrentStream(user) ==
    LET r == removeCurrentStream(redis, user)
    IN  StoreCall("twitch", "removeCurrentStream", user, NoChan, r.db, r.uid, <<>>)

CallRemoveRecentStream(userID, channelID) ==
    StoreCall("mixer", "removeRecentStream", userID, channelID,
              removeRecentStream(redis, userID, channelID), NoChan, <<>>)

CallGetCurrentStreamUserID(user) ==
    StoreCall("twitch", "getCurrentStreamUserID", user, NoChan, redis,
              getCurrentStreamUserID(redis, user), <<>>)

CallGetRecentStreamUserIDs(user) ==
    StoreCall("twitch", "getRecentStreamUserIDs", user, NoChan, redis, NoChan,
              getRecentStreamUserIDs(redis, user))

CallFindRecentStreams(userID) ==
    StoreCall("mixer", "findRecentStreams", userID, NoChan, redis, NoChan,
              findRecentStreams(redis, userID))

\* the store function returns to its caller
CallReturns ==
    /\ ~Idle
    /\ last' = NoRequest
    /\ UNCHANGED <<redis, steps, sincePush, running>>

NextStore ==
    \/ Ready /\ \E user \in Users, stream \in Chans : CallSaveUsersCurrentStream(user, stream)
    \/ Ready /\ \E user \in Users \cup {NoChan}, stream \in Chans \cup {NoChan} :
                    CallSaveUsersCurrentStreamWithNil(user, stream)
    \/ Ready /\ \E user \in Users, channelID \in Chans : CallSaveRecentStream(user, channelID)
    \/ Ready /\ \E user \in Users : CallRemoveCurrentStream(user)
    \/ Ready /\ \E user \in Users, channelID \in Chans : CallRemoveRecentStream(user, channelID)
    \/ Ready /\ \E user \in Users : CallGetCurrentStreamUserID(user)
    \/ Ready /\ \E user \in Users : CallGetRecentStreamUserIDs(user)
    \/ Ready /\ \E user \in Users : CallFindRecentStreams(user)
    \/ CallReturns
    \/ Tick(TickStep)

SpecStore == Init /\ [][NextStore]_vars

\* ---- calls of the variant selection ----
\* a call of one of the two functions and its return value
VariantCall(plat, cmd, variants, streamQuality, res) ==
    /\ Ready
    /\ last' = [plat |-> plat, cmd |-> cmd, variants |-> variants,
                streamQuality |-> streamQuality, variant |-> res.variant, err |-> res.err]
    /\ steps' = steps + 1
    /\ UNCHANGED <<redis, sincePush, running>>

CallGetStream(variants, streamQuality, decodes) ==
    VariantCall("twitch", "GetStream", variants, streamQuality,
                GetStream(variants, streamQuality, decodes))

CallFindStreamWithChannel(variants, streamQuality, decodes) ==
    VariantCall("mixer", "FindStreamWithChannel", variants, streamQuality,
                FindStreamWithChannel(variants, streamQuality, decodes))

NextVariant ==
    \/ Ready /\ \E variants \in Playlists, streamQuality \in StreamQualities,
                    decodes \in BOOLEAN :
                    CallGetStream(variants, streamQuality, decodes)
    \/ Ready /\ \E variants \in Playlists, streamQuality \in StreamQualities,
                    decodes \in BOOLEAN :
                    CallFindStreamWithChannel(variants, streamQuality, decodes)
    \/ CallReturns

SpecVariant == Init /\ [][NextVariant]_vars

\* ---- two requests of one user served at the same time ----
\* Every command sent to Redis is a step of its own; the commands between
\* MULTI and EXEC are one step.  Both requests are for RaceUser on the same
\* platform and get the same live list.
RaceUser == 1

RaceKey == ListName(running.plat, RaceUser)

Command(op, arg) == [op |-> op, arg |-> arg]

\* (variant: the three commands are sent one by one, without MULTI and EXEC)
pushPipelined(id) ==
    <<<<Command("LREM", id)>>, <<Command("LPUSH", id)>>, <<Command("EXPIRE", TTLFull)>>>>

\* the transactions of SaveUsersCurrentStream and saveRecentStream, each a
\* sequence of commands that Redis runs without another client's in between
pushTransactions(id) ==
    <<<<Command("LREM", id), Command("LPUSH", id), Command("EXPIRE", TTLFull)>>>>

RECURSIVE exec(_, _, _)
exec(db, key, commands) ==
    IF commands = <<>> THEN db
    ELSE LET c == Head(commands)
             db1 == IF c.op = "LREM" THEN LREM(db, key, c.arg)
                    ELSE IF c.op = "LPUSH" THEN LPUSH(db, key, c.arg)
                    ELSE EXPIRE(db, key, c.arg)
         IN  exec(db1, key, Tail(commands))

Proc(p) == running.proc[p]

At(p, pc) == Proc(p).pc = pc

\* the request of p goes on to pc with the changes of its fields
Goes(p, pc, changes) ==
    running' = [running EXCEPT !.proc[p] = [f \in DOMAIN NoProc |->
                   IF f = "pc" THEN pc
                   ELSE IF f \in DOMAIN changes THEN changes[f] ELSE @[f]]]

Fails(p, err) == Goes(p, "done", [err |-> err])

Selects(p, channel) == Goes(p, "save", [sel |-> channel, txn |-> 1])

\* the history before the two requests: earlier selections, one after the other
Setup(plat, channel) ==
    /\ running = NoRace
    /\ Idle
    /\ steps < MaxSetup
    /\ redis' = IF plat = "twitch" THEN SaveUsersCurrentStream(redis, RaceUser, channel)
                ELSE saveRecentStream(redis, RaceUser, channel)
    /\ sincePush' = [sincePush EXCEPT ![ListName(plat, RaceUser)] = 0]
    /\ steps' = steps + 1
    /\ UNCHANGED <<last, running>>

\* the request of p arrives and has the live list; Play selects at once
Begin(p, plat, cmd, live) ==
    /\ At(p, "idle")
    /\ running.plat = "none" \/ (running.plat = plat /\ running.live = live)
    /\ LET first ==
               IF plat = "twitch" /\ Len(live) <= 0
               THEN [pc |-> "done", err |-> ErrTwitchNoLive]
               ELSE IF plat = "mixer" /\ cmd \in {PLAY, NEXT} /\ Len(live) <= 0
               THEN [pc |-> "done", err |-> ErrMixerNoOnline]
               ELSE IF cmd = PLAY THEN [pc |-> "save", sel |-> live[1], txn |-> 1]
               ELSE IF plat = "twitch" /\ cmd = PREVIOUS THEN [pc |-> "lpop"]
               ELSE [pc |-> "read"]
       IN  running' = [running EXCEPT
                           !.plat = plat,
                           !.live = live,
                           !.proc[p] = [f \in DOMAIN NoProc |->
                               IF f = "cmd" THEN cmd
                               ELSE IF f \in DOMAIN first THEN first[f] ELSE @[f]]]
    /\ UNCHANGED <<redis, last, steps, sincePush>>

\* the one read of the Twitch Next and Resume (LINDEX) and of the Mixer
\* commands (LRANGE), and what the request makes of it
Read(p) ==
    /\ At(p, "read")
    /\ IF running.plat = "twitch"
       THEN LET r == FindStreamForCommand(redis, RaceUser, running.live, Proc(p).cmd)
            IN  IF r.err # NoErr THEN Fails(p, r.err) ELSE Selects(p, r.stream)
       ELSE LET recents == findRecentStreams(redis, RaceUser)
            IN  IF Proc(p).cmd = NEXT
                THEN \E rnd \in 0..(Len(running.live) - 1) :
                         Selects(p, MixerNext(redis, RaceUser, running.live, "none", rnd).sel)
                ELSE IF Proc(p).cmd = RESUME
                THEN IF Len(recents) <= 0 THEN Fails(p, ErrMixerNoRecentResume)
                     ELSE Goes(p, "resume", [todo |-> recents])
                ELSE IF Len(recents) <= 1 THEN Fails(p, ErrMixerNoRecent)
                     ELSE Goes(p, "dropHead", [todo |-> recents])
    /\ UNCHANGED <<redis, last, steps, sincePush>>

\* removeCurrentStream, first command: LPOP; todo notes what LPOP has left of
\* the list
Lpop(p) ==
    /\ At(p, "lpop")
    /\ redis' = LPOP(redis, RaceKey)
    /\ Goes(p, "lindex", [todo |-> LPOP(redis, RaceKey)[RaceKey].list])
    /\ UNCHANGED <<last, steps, sincePush>>

\* removeCurrentStream, second command: LINDEX 0, and the rest of the iteration
Lindex(p) ==
    /\ At(p, "lindex")
    /\ LET prevUID == LINDEX0(redis, RaceKey)
           currentStreamIndex == findIndexForStreamer(prevUID, running.live)
       IN  IF prevUID = NoChan THEN Fails(p, ErrTwitchNoPrevious)
           ELSE IF currentStreamIndex # -1
                THEN Selects(p, running.live[currentStreamIndex + 1])
                ELSE Goes(p, "lpop", <<>>)
    /\ UNCHANGED <<redis, last, steps, sincePush>>

\* one iteration of the loop of the Mixer Resume, with its LREM
ResumeStep(p) ==
    /\ At(p, "resume")
    /\ LET mostRecent == Head(Proc(p).todo)
           rest == Tail(Proc(p).todo)
       IN  /\ redis' = removeRecentStream(redis, RaceUser, mostRecent)
           /\ IF mostRecent \in Range(running.live) THEN Selects(p, mostRecent)
              ELSE IF Len(rest) <= 0 THEN Fails(p, ErrMixerNoneLive)
              ELSE Goes(p, "resume", [todo |-> rest])
    /\ UNCHANGED <<last, steps, sincePush>>

\* the Mixer Previous removes the head it has read
DropHead(p) ==
    /\ At(p, "dropHead")
    /\ redis' = removeRecentStream(redis, RaceUser, Head(Proc(p).todo))
    /\ Goes(p, "scan", [todo |-> Tail(Proc(p).todo)])
    /\ UNCHANGED <<last, steps, sincePush>>

\* one iteration of the loop of the Mixer Previous
Scan(p) ==
    /\ At(p, "scan")
    /\ IF Proc(p).todo = <<>>
       THEN Fails(p, ErrMixerNoRecent) /\ UNCHANGED redis
       ELSE LET channelID == Head(Proc(p).todo)
            IN  IF channelID \notin Range(running.live)
                THEN /\ redis' = removeRecentStream(redis, RaceUser, channelID)
                     /\ Goes(p, "scan", [todo |-> Tail(Proc(p).todo)])
                ELSE Selects(p, channelID) /\ UNCHANGED redis
    /\ UNCHANGED <<last, steps, sincePush>>

\* the next transaction of the Push of the selected channel
Save(p) ==
    /\ At(p, "save")
    /\ LET transactions == pushTransactions(Proc(p).sel)
           commands == transactions[Proc(p).txn]
           pushes == \E i \in 1..Len(commands) : commands[i].op = "LPUSH"
           pc == IF Proc(p).txn >= Len(transactions) THEN "done" ELSE "save"
       IN  /\ redis' = exec(redis, RaceKey, commands)
           /\ running' = [running EXCEPT
                              !.lastPush = IF pushes THEN Proc(p).sel ELSE @,
                              !.proc[p].pc = pc,
                              !.proc[p].txn = @ + 1]
           /\ sincePush' = IF pushes THEN [sincePush EXCEPT ![RaceKey] = 0] ELSE sincePush
    /\ UNCHANGED <<last, steps>>

Commands == {PLAY, NEXT, RESUME, PREVIOUS}

NextRace ==
    \/ \E plat \in Platforms, channel \in Chans : Setup(plat, channel)
    \/ \E p \in Procs, plat \in Platforms, cmd \in Commands, live \in LiveLists :
           Begin(p, plat, cmd, live)
    \/ \E p \in Procs : Read(p)
    \/ \E p \in Procs : Lpop(p)
    \/ \E p \in Procs : Lindex(p)
    \/ \E p \in Procs : ResumeStep(p)
    \/ \E p \in Procs : DropHead(p)
    \/ \E p \in Procs : Scan(p)
    \/ \E p \in Procs : Save(p)

SpecRace == Init /\ [][NextRace]_vars

\* ---- a run of Next requests of one user with the same live list ----
\* the first request of the run fixes the platform and the live list
CycleBegin(plat, live) ==
    /\ running = NoRace
    /\ Idle
    /\ live # <<>>
    /\ running' = [running EXCEPT
                       !.plat = plat,
                       !.live = live,
                       !.start = LINDEX0(redis, ListName(plat, RaceUser))]
    /\ UNCHANGED <<redis, last, steps, sincePush>>

\* the next Next request of the run, from its arrival to its return
CycleNext ==
    /\ running.plat # "none"
    /\ Len(running.sels) < Len(running.live)
    /\ \E rnd \in 0..(Len(running.live) - 1) :
           LET res == IF running.plat = "twitch"
                      THEN genericGetStream(redis, RaceUser, NEXT, running.live, "none")
                      ELSE MixerNext(redis, RaceUser, running.live, "none", rnd)
           IN  /\ redis' = res.db
               /\ running' = [running EXCEPT
                                  !.sels = Append(@, IF res.err = NoErr THEN res.sel
                                                     ELSE NoChan)]
               /\ sincePush' = IF res.err = NoErr
                               THEN [sincePush EXCEPT ![RaceKey] = 0]
                               ELSE sincePush
    /\ UNCHANGED <<last, steps>>

NextCycle ==
    \/ \E plat \in Platforms, channel \in Chans : Setup(plat, channel)
    \/ \E plat \in Platforms, live \in LiveLists : CycleBegin(plat, live)
    \/ CycleNext

SpecCycle == Init /\ [][NextCycle]_vars

\* ---- requests served one after the other, with a log of what they selected ----
\* the provider's method for the command
Provider(plat, cmd, db, user, live, fault, rnd) ==
    IF plat = "twitch" THEN genericGetStream(db, user, cmd, live, fault)
    ELSE IF cmd = PLAY THEN MixerPlay(db, user, live, fault)
    ELSE IF cmd = NEXT THEN MixerNext(db, user, live, fault, rnd)
    ELSE IF cmd = RESUME THEN MixerResume(db, user, live, fault)
    ELSE MixerPrevious(db, user, live, fault)

\* one request from its arrival to its return
Serve(plat, cmd, user, live, fault) ==
    /\ steps < MaxServed
    /\ \E rnd \in 0..(IF plat = "mixer" /\ cmd = NEXT /\ Len(live) > 0
                      THEN Len(live) - 1 ELSE 0) :
           LET res == Provider(plat, cmd, storeRead(redis, fault), user, live, fault, rnd)
               key == ListName(plat, user)
           IN  /\ redis' = storeWritten(redis, fault, res)
               /\ running' = IF res.err = NoErr
                             THEN [running EXCEPT !.selected[key] = @ \cup {res.sel}]
                             ELSE running
               /\ sincePush' = IF res.err = NoErr /\ fault # "store"
                               THEN [sincePush EXCEPT ![key] = 0]
                               ELSE sincePush
    /\ steps' = steps + 1
    /\ UNCHANGED last

NextLog ==
    \/ \E plat \in Platforms, cmd \in Commands, user \in Users, live \in LiveLists,
          fault \in Faults : Serve(plat, cmd, user, live, fault)
    \/ steps < MaxServed /\ Tick(TickStep)

SpecLog == Init /\ [][NextLog]_vars

\* ---- vocabulary of the properties ----
NoDup(s) == \A i, j \in 1..Len(s) : i # j => s[i] # s[j]

History(plat, user) == redis[ListName(plat, user)].list

\* the history, after the call, of the user the call in progress is for
Hist == History(last.plat, last.user)

Requested(cmd) == ~Idle /\ last.cmd = cmd

Pushed == Requested("SaveUsersCurrentStream") \/ Requested("saveRecentStream")

\* C1: no history list holds a channel id twice, and a Push puts its id at
\* the front of the list without adding an id the list did not hold or a
\* second copy of one it held
C1_Dedup ==
    /\ \A k \in Keys : NoDup(redis[k].list)
    /\ Pushed => /\ Hist # <<>>
                 /\ Head(Hist) = last.sel
                 /\ Range(Hist) = Range(last.pre) \cup {last.sel}
                 /\ Len(Hist) = Cardinality(Range(last.pre) \cup {last.sel})

\* a Push of an id that was in the list below the head
C1_Witness ==
    /\ Pushed
    /\ Len(last.pre) >= 2
    /\ last.sel \in Range(Tail(last.pre))

\* ---- vocabulary of the navigation properties ----
Navigated ==
    ~Idle /\ last.plat \in Platforms /\ last.cmd \in {PLAY, NEXT, RESUME, PREVIOUS}

Nav(cmd) == Navigated /\ last.cmd = cmd

Succeeded == last.err = NoErr

Live(c) == c \in Range(last.live)

\* position (from 1) of the last occurrence of c in s
LastIndexOf(c, s) ==
    CHOOSE i \in 1..Len(s) : s[i] = c /\ \A j \in (i + 1)..Len(s) : s[j] # c

Occurrences(c, s) == Cardinality({i \in 1..Len(s) : s[i] = c})

\* the elements of s in ascending order
Ascending(s) ==
    CHOOSE t \in [1..Len(s) -> Range(s)] :
        /\ \A i \in 1..(Len(t) - 1) : t[i] <= t[i + 1]
        /\ \A c \in Range(s) : Occurrences(c, t) = Occurrences(c, s)

\* the element after the (last) position of c in s, the first one after the last
Following(c, s) ==
    LET i == LastIndexOf(c, s) IN IF i < Len(s) THEN s[i + 1] ELSE s[1]

Smallest(s) == CHOOSE c \in Range(s) : \A d \in Range(s) : c <= d

\* the failure reasons of the taxonomy that the providers' messages stand for
ChannelNotLive == {ErrTwitchNotStreaming, ErrMixerNoneLive}
NoLiveChannels == {ErrTwitchNoLive, ErrMixerNoOnline}
NoHistory == {ErrTwitchNoPrevious, ErrMixerNoRecent, ErrMixerNoRecentResume}

\* nothing selected, nothing returned
NothingSelected == last.sel = NoChan /\ last.ret = NoChan

\* C2: after a successful Play, Next, Resume or Previous the request has
\* returned the Stream of the channel it selected, and that channel is the head
\* of the user's history
C2_HeadIsReturnedSelection ==
    (Navigated /\ Succeeded) =>
        /\ last.sel # NoChan
        /\ last.ret = last.sel
        /\ Hist # <<>>
        /\ Head(Hist) = last.ret

\* C3 as stated: Next with the head at index i of the live list as the
\* platform returned it selects the element at i+1, the first one after the last
C3_NextInPlatformOrder ==
    (Nav(NEXT) /\ last.pre # <<>> /\ Live(Head(last.pre))) =>
        /\ Succeeded
        /\ last.sel = Following(Head(last.pre), last.live)

\* C3 amended: Twitch takes the positions in the live list as returned, Mixer
\* in the live list sorted by ascending channel id
C3_NextAdvancesOrWraps ==
    (Nav(NEXT) /\ last.pre # <<>> /\ Live(Head(last.pre))) =>
        /\ Succeeded
        /\ last.sel = Following(Head(last.pre),
                                IF last.plat = "mixer" THEN Ascending(last.live)
                                ELSE last.live)

\* Twitch, live [X, Y, Z] with head Z: Next selects X
C3_Witness ==
    /\ Nav(NEXT) /\ last.plat = "twitch" /\ Succeeded
    /\ Len(last.live) = 3 /\ NoDup(last.live)
    /\ last.pre # <<>>
    /\ Head(last.pre) = last.live[3]
    /\ last.sel = last.live[1]

C5_PreviousSelection ==
    (Nav(PREVIOUS) /\ Succeeded) =>
        \E j \in 2..Len(last.pre) :
            /\ last.sel = last.pre[j]
            /\ Live(last.sel)
            /\ \A i \in 2..(j - 1) : ~Live(last.pre[i])
            /\ Hist = <<last.sel>> \o SubSeq(last.pre, j + 1, Len(last.pre))
            /\ last.ret = last.sel

\* a Previous that stepped over an entry that is not live
C5_Witness ==
    /\ Nav(PREVIOUS) /\ Succeeded
    /\ Len(last.pre) = 3
    /\ ~Live(last.pre[2])
    /\ last.sel = last.pre[3]
    /\ Hist = <<last.sel>>

C7_ResumeHeadOrFail ==
    (Nav(RESUME) /\ last.pre # <<>>) =>
        IF Live(Head(last.pre))
        THEN Succeeded /\ last.sel = Head(last.pre)
        ELSE last.err \in (ChannelNotLive \cup NoLiveChannels) /\ NothingSelected

\* C7 amended: a live head is re-selected on both platforms; when the head is
\* not live Twitch fails, and Mixer selects the most recent entry of the history
\* that is live and fails only when no entry is
C7_Resume ==
    (Nav(RESUME) /\ last.pre # <<>>) =>
        IF Live(Head(last.pre)) THEN Succeeded /\ last.sel = Head(last.pre)
        ELSE IF last.plat = "twitch"
        THEN /\ last.err = IF last.live = <<>> THEN ErrTwitchNoLive ELSE ErrTwitchNotStreaming
             /\ NothingSelected
        ELSE IF \E i \in 1..Len(last.pre) : Live(last.pre[i])
        THEN /\ Succeeded
             /\ \E i \in 1..Len(last.pre) :
                    /\ last.sel = last.pre[i]
                    /\ Live(last.pre[i])
                    /\ \A j \in 1..(i - 1) : ~Live(last.pre[j])
        ELSE last.err = ErrMixerNoneLive /\ NothingSelected

\* a Mixer Resume that went on from a head that is not live to the entry below
C7_Witness ==
    /\ Nav(RESUME) /\ last.plat = "mixer" /\ Succeeded
    /\ Len(last.pre) >= 2
    /\ ~Live(last.pre[1])
    /\ Live(last.pre[2])
    /\ last.sel = last.pre[2]

\* C8: Resume and Previous on an empty history fail with the no-history
\* reason, select nothing and leave the history empty
C8_EmptyHistoryFails ==
    ((Nav(RESUME) \/ Nav(PREVIOUS)) /\ last.pre = <<>> /\ last.live # <<>>) =>
        /\ last.err \in NoHistory
        /\ NothingSelected
        /\ Hist = <<>>

C10_NextLikePlay ==
    (Navigated /\ last.cmd \in {NEXT, PLAY} /\ last.pre = <<>> /\ last.live # <<>>) =>
        /\ Succeeded
        /\ last.sel = last.live[1]
        /\ Hist = <<last.live[1]>>

\* C10 amended: that holds of Play and of the Twitch Next; the Mixer Next selects
\* the live channel with the smallest id, which is Play's choice only when that
\* channel is the first of the live list
C10_EmptyHistoryNext ==
    (Navigated /\ last.cmd \in {NEXT, PLAY} /\ last.pre = <<>> /\ last.live # <<>>) =>
        /\ Succeeded
        /\ last.sel = IF last.plat = "mixer" /\ last.cmd = NEXT
                      THEN Smallest(last.live) ELSE last.live[1]
        /\ Hist = <<last.sel>>

\* a Next on an empty history and a live list that does not start with its
\* smallest id
C10_Witness ==
    /\ Nav(NEXT) /\ Succeeded
    /\ last.pre = <<>>
    /\ Len(last.live) >= 2
    /\ last.live[1] # Smallest(last.live)
    /\ Hist = <<last.sel>>

\* C11 as stated: with an empty live list every command fails with the
\* no-live-channels reason, selects nothing and leaves the history as it was
C11_EmptyLiveFails ==
    (Navigated /\ last.live = <<>>) =>
        /\ last.err \in NoLiveChannels
        /\ NothingSelected
        /\ Hist = last.pre

\* C11 amended: with an empty live list every command fails and selects
\* nothing; the four Twitch commands and the Mixer Play and Next give the
\* no-live-channels reason and leave the history as it was; the Mixer Resume
\* and Previous go to the history first: Resume gives the no-history reason on
\* an empty history and otherwise removes every entry and reports that none is
\* live, Previous reports no recent streams and, from two entries on, removes
\* every entry
C11_EmptyLive ==
    (Navigated /\ last.live = <<>>) =>
        /\ ~Succeeded
        /\ NothingSelected
        /\ IF last.plat = "twitch" \/ last.cmd \in {PLAY, NEXT}
           THEN last.err \in NoLiveChannels /\ Hist = last.pre
           ELSE IF last.cmd = RESUME
           THEN /\ last.err = IF last.pre = <<>> THEN ErrMixerNoRecentResume
                              ELSE ErrMixerNoneLive
                /\ Hist = <<>>
           ELSE /\ last.err = ErrMixerNoRecent
                /\ Hist = IF Len(last.pre) <= 1 THEN last.pre ELSE <<>>

\* a Twitch Previous with no live channel leaves a history of two entries alone
C11_Witness ==
    /\ Nav(PREVIOUS) /\ last.plat = "twitch"
    /\ last.live = <<>>
    /\ Len(last.pre) >= 2
    /\ last.err = ErrTwitchNoLive
    /\ Hist = last.pre

\* C12: a navigation command returns either the Stream of a channel with a
\* chosen rendition, or a failure reason and no Stream; never neither, never a
\* Stream without a rendition
C12_StreamOrFailure ==
    Navigated =>
        \/ Succeeded /\ last.ret # NoChan /\ last.variant
        \/ ~Succeeded /\ last.ret = NoChan /\ ~last.variant

\* ---- vocabulary of the store properties ----
\* the remaining TTL, after the call, of the list the call in progress is for
HistTTL == redis[ListName(last.plat, last.user)].ttl

WithoutId(s, c) == SelectSeq(s, LAMBDA x : x # c)

\* List and PeekHead applied to the store as the call in progress has left it
ListNow ==
    IF last.plat = "twitch" THEN getRecentStreamUserIDs(redis, last.user)
    ELSE findRecentStreams(redis, last.user)

PeekHeadNow == getCurrentStreamUserID(redis, last.user)

Listed == Requested("getRecentStreamUserIDs") \/ Requested("findRecentStreams")

\* C13: after a Push, List returns the pushed id followed by the ids that were
\* in the list before, in the order they had (so pushes of distinct A, B, C
\* give [C, B, A]), and PeekHead returns the pushed id; a List call returns the
\* stored list
C13_Order ==
    /\ Pushed => /\ ListNow = <<last.sel>> \o WithoutId(last.pre, last.sel)
                 /\ last.plat = "twitch" => PeekHeadNow = last.sel
    /\ Listed => last.out = Hist

\* the third Push of three distinct ids
C13_Witness ==
    /\ Pushed
    /\ Len(last.pre) = 2
    /\ last.sel \notin Range(last.pre)
    /\ ListNow = <<last.sel, last.pre[1], last.pre[2]>>

\* C14: removeCurrentStream takes exactly the head off the list and returns
\* the head of the list it leaves, the empty value when it leaves none
C14_PopHead ==
    Requested("removeCurrentStream") =>
        /\ Hist = IF last.pre = <<>> THEN <<>> ELSE Tail(last.pre)
        /\ last.ret = IF Len(last.pre) <= 1 THEN NoChan ELSE last.pre[2]

\* removeCurrentStream on [C, B, A] returns B and leaves [B, A]
C14_Witness ==
    /\ Requested("removeCurrentStream")
    /\ Len(last.pre) = 3
    /\ last.ret = last.pre[2]
    /\ Hist = <<last.pre[2], last.pre[3]>>

\* C15: getCurrentStreamUserID and the two list reads leave the list and its
\* remaining TTL as they were; the first returns the head, the empty value
\* when there is no list, the others return the list, empty when there is none
C15_ReadsOnly ==
    (Requested("getCurrentStreamUserID") \/ Listed) =>
        /\ Hist = last.pre
        /\ HistTTL = last.prettl
        /\ Requested("getCurrentStreamUserID") =>
               last.ret = IF last.pre = <<>> THEN NoChan ELSE Head(last.pre)
        /\ Listed => last.out = last.pre

\* getCurrentStreamUserID on a list of two with part of its TTL gone
C15_Witness ==
    /\ Requested("getCurrentStreamUserID")
    /\ Len(last.pre) >= 2
    /\ last.prettl = TTLFull - TickStep
    /\ last.ret = Head(last.pre)
    /\ HistTTL = last.prettl

\* C16: after a Push the remaining TTL of the list is the full 86400 seconds
C16_PushResetsTTL == Pushed => HistTTL = TTLFull

\* a Push onto a list with part of its TTL gone
C16_Witness ==
    /\ Pushed
    /\ last.pre # <<>>
    /\ last.prettl = TTLFull - TickStep
    /\ HistTTL = TTLFull

Removing == Requested("removeCurrentStream") \/ Requested("removeRecentStream")

\* C17 as stated: every write (Push, PopHead, Remove) leaves the list with
\* the full TTL
C17_EveryWriteResetsTTL ==
    ((Pushed \/ Removing) /\ Hist # <<>>) => HistTTL = TTLFull

\* C17 amended: only a Push sets the TTL, to the full window;
\* removeCurrentStream and removeRecentStream leave the remaining TTL of the
\* list as it was, and a list they empty is gone
C17_WritesAndTTL ==
    /\ Pushed => Hist # <<>> /\ HistTTL = TTLFull
    /\ Removing => HistTTL = IF Hist = <<>> THEN 0 ELSE last.prettl

\* removeCurrentStream on a list of two with part of its TTL gone
C17_Witness ==
    /\ Requested("removeCurrentStream")
    /\ Len(last.pre) >= 2
    /\ last.prettl = TTLFull - TickStep
    /\ HistTTL = TTLFull - TickStep

\* C18: removeRecentStream takes the id out of the list wherever it is, keeps
\* the other ids in their order and leaves the remaining TTL as it was
C18_Remove ==
    Requested("removeRecentStream") =>
        /\ Hist = WithoutId(last.pre, last.sel)
        /\ Hist # <<>> => HistTTL = last.prettl

\* an id below the head removed from a list with part of its TTL gone
C18_Witness ==
    /\ Requested("removeRecentStream")
    /\ Len(last.pre) = 2
    /\ last.sel = last.pre[2]
    /\ last.prettl = TTLFull - TickStep
    /\ Hist = <<last.pre[1]>>
    /\ HistTTL = last.prettl

\* C19: a user's history list is empty (or expired) exactly when nothing was
\* pushed onto it within the last 24 hours
C19_EmptyIffNotPlayed ==
    \A k \in Keys : (redis[k].list = <<>>) <=> (sincePush[k] >= TTLFull)

\* ---- vocabulary of the variant properties ----
Selecting ==
    ~Idle /\ last.cmd \in {"GetStream", "FindStreamWithChannel"} /\ last.err = NoErr

\* the indexes of the variants whose label starts with the requested quality
PrefixMatches ==
    {i \in 1..Len(last.variants) : HasPrefix(last.variants[i], last.streamQuality)}

AudioOnlyAt == {i \in 1..Len(last.variants) : last.variants[i] = audio_only}

\* C20: when the label of some variant starts with the requested quality, the
\* first such variant of the playlist is selected, wherever an audio_only
\* variant stands
C20_FirstPrefixMatch ==
    (Selecting /\ PrefixMatches # {}) =>
        /\ last.variant \in PrefixMatches
        /\ \A i \in PrefixMatches : last.variant <= i

\* "720p" asked of [audio_only, 720p.., 720p..]: the second variant is selected
C20_Witness ==
    /\ Selecting
    /\ Len(last.variants) = 3
    /\ AudioOnlyAt = {1}
    /\ PrefixMatches = {2, 3}
    /\ last.variant = 2

\* C21: when no label starts with the requested quality, the audio_only
\* variant is selected if the playlist has one (the last of them if several),
\* and the last variant of the playlist otherwise
C21_Fallbacks ==
    (Selecting /\ last.variants # <<>> /\ PrefixMatches = {}) =>
        IF AudioOnlyAt # {}
        THEN /\ last.variant \in AudioOnlyAt
             /\ \A i \in AudioOnlyAt : i <= last.variant
        ELSE last.variant = Len(last.variants)

\* "720p" asked of [audio_only, 1080p..]: the audio_only variant is selected,
\* not the last one
C21_Witness ==
    /\ Selecting
    /\ last.streamQuality = <<"7", "2", "0", "p">>
    /\ Len(last.variants) = 2
    /\ PrefixMatches = {}
    /\ AudioOnlyAt = {1}
    /\ last.variant = 1

\* ---- vocabulary of the failure properties ----
Faulted(fault) == Navigated /\ last.fault = fault

AccountUnavailable == {ErrTwitchAccount, ErrMixerInfo, ErrMixerResumeUser, ErrMixerAccount}
FollowsUnavailable == {ErrTwitchFollows, ErrMixerDecode, ErrMixerResumeFollows}
NoPlayableRendition == {ErrTwitchStreamURL, ErrMixerPrevious}

\* s is what is left of t after taking entries off its front
IsSuffix(s, t) == Len(s) <= Len(t) /\ s = SubSeq(t, Len(t) - Len(s) + 1, Len(t))

\* C22: a request whose chosen channel has an empty playlist fails with the
\* no-playable-rendition reason, returns no Stream and pushes nothing: the
\* history holds nothing it did not hold before
C22_EmptyRenditionsFail ==
    (Faulted("rendEmpty") /\ last.sel # NoChan) =>
        /\ last.err \in NoPlayableRendition
        /\ last.ret = NoChan
        /\ IsSuffix(Hist, last.pre)

\* the request made the provider call that fails
FollowsCalled ==
    \/ last.plat = "twitch"
    \/ last.cmd \in {PLAY, NEXT}
    \/ last.cmd = RESUME /\ last.pre # <<>>

\* C24: a request during which a provider call fails (the user lookup, the
\* follows, the live streams, the renditions of the chosen channel) ends with
\* the failure reason of the taxonomy for that call, returns no Stream and
\* leaves the history as it was; it never ends in a crash
C24_ProviderFailures ==
    /\ Faulted("user") =>
           last.err \in AccountUnavailable /\ last.ret = NoChan /\ Hist = last.pre
    /\ (Faulted("follows") /\ FollowsCalled) =>
           last.err \in FollowsUnavailable /\ last.ret = NoChan /\ Hist = last.pre
    /\ (Faulted("live") /\ last.plat = "twitch") =>
           last.err \in FollowsUnavailable /\ last.ret = NoChan /\ Hist = last.pre
    /\ (Faulted("rendErr") /\ last.sel # NoChan) =>
           last.err \in NoPlayableRendition /\ last.ret = NoChan /\ Hist = last.pre

\* C23 as stated: when the connection to the store fails, every command goes
\* on to select the first live channel, as a fresh Play
C23_StoreFailureFreshPlay ==
    (Faulted("store") /\ last.live # <<>>) =>
        /\ Succeeded
        /\ last.sel = last.live[1]

\* C23 amended: a store failure is never the reason a request fails; the
\* request goes on as on an empty history and the stored list stays as it was.
\* With live channels, Play and Next select as on an empty history (the first
\* live channel; the Mixer Next the one with the smallest id) and so does the
\* Twitch Resume; the Mixer Resume and both Previous fail with the no-history
\* reason
C23_StoreFailureAsEmptyHistory ==
    Faulted("store") =>
        /\ Hist = last.pre
        /\ HistTTL = last.prettl
        /\ IF last.cmd = PREVIOUS \/ (last.cmd = RESUME /\ last.plat = "mixer")
           THEN /\ NothingSelected
                /\ last.err \in IF last.plat = "twitch" /\ last.live = <<>>
                                THEN NoLiveChannels ELSE NoHistory
           ELSE IF last.live = <<>>
           THEN NothingSelected /\ last.err \in NoLiveChannels
           ELSE /\ Succeeded
                /\ last.sel = IF last.plat = "mixer" /\ last.cmd = NEXT
                              THEN Smallest(last.live) ELSE last.live[1]

\* a Twitch Next whose head is not live selects the first live channel when
\* the store cannot be read
C23_Witness ==
    /\ Faulted("store") /\ last.plat = "twitch" /\ last.cmd = NEXT
    /\ last.pre # <<>>
    /\ last.live # <<>>
    /\ ~Live(Head(last.pre))
    /\ Succeeded
    /\ last.sel = last.live[1]
    /\ Hist = last.pre

\* ---- vocabulary of the properties of concurrent requests ----
RaceDone == \A p \in Procs : At(p, "done")

RaceList == redis[RaceKey].list

\* the request of p takes nothing off the list but what its own Push replaces
OnlyPushes(p) ==
    Proc(p).cmd \in {PLAY, NEXT} \/ (Proc(p).cmd = RESUME /\ running.plat = "twitch")

\* C25 as stated: at no point of two concurrent requests does a list hold an
\* id twice, and when both are done the head of the list is the channel of
\* the Push that was applied last
C25_LastPushWins ==
    /\ \A k \in Keys : NoDup(redis[k].list)
    /\ (RaceDone /\ running.lastPush # NoChan) =>
           RaceList # <<>> /\ Head(RaceList) = running.lastPush

\* C25 amended: no list ever holds an id twice; when both requests are done
\* and each was a Play, a Next or a Twitch Resume, the head of the list is the
\* channel of the Push applied last and the TTL is the full window.  (A
\* Previous, or a Mixer Resume, takes entries off the list one command at a
\* time and can take off what the other request has just pushed.)
C25_AtomicPushes ==
    /\ \A k \in Keys : NoDup(redis[k].list)
    /\ (RaceDone /\ running.lastPush # NoChan /\ \A p \in Procs : OnlyPushes(p)) =>
           /\ RaceList # <<>>
           /\ Head(RaceList) = running.lastPush
           /\ redis[RaceKey].ttl = TTLFull

\* two Next requests that both read the head before either pushed: both
\* selected the same channel, which is in the list once
C25_Witness ==
    /\ RaceDone
    /\ \A p \in Procs : Proc(p).cmd = NEXT /\ Proc(p).err = NoErr
    /\ Proc(1).sel = Proc(2).sel
    /\ Len(running.live) = 3 /\ NoDup(running.live)
    /\ Len(RaceList) = 2
    /\ Head(RaceList) = running.lastPush

\* ---- the work of one Previous ----
\* the store as the request in last found it
PreStore ==
    [redis EXCEPT ![ListName(last.plat, last.user)] = [list |-> last.pre, ttl |-> last.prettl]]

PreviousPops ==
    IF last.plat = "twitch" THEN twitchPreviousPops(PreStore, last.user, last.live)
    ELSE mixerPreviousPops(PreStore, last.user, last.live)

Exhausted == last.err \in {ErrTwitchNoPrevious, ErrMixerNoRecent}

\* C26 as stated: a Previous performs at most as many pops as the history had
\* entries when it started, and then selects a channel or fails as exhausted
C26_PopsWithinHistory ==
    Nav(PREVIOUS) =>
        /\ PreviousPops <= Len(last.pre)
        /\ PreviousPops > 0 => (Succeeded \/ Exhausted)

\* C26 amended: a Previous performs at most as many pops as the history had
\* entries when it started, but the Twitch Previous on an empty history (with
\* a live channel) still performs one pop, which removes nothing; after its
\* pops the request has selected a channel or fails as exhausted
C26_PopsBounded ==
    Nav(PREVIOUS) =>
        /\ PreviousPops <= (IF last.plat = "twitch" /\ last.pre = <<>> THEN 1
                            ELSE Len(last.pre))
        /\ PreviousPops > 0 => (Succeeded \/ Exhausted)

\* a Previous that pops every entry of a history of three and fails
C26_Witness ==
    /\ Nav(PREVIOUS)
    /\ Len(last.pre) = 3
    /\ PreviousPops = 3
    /\ Exhausted
    /\ Hist = <<>>

\* ---- what a Push leaves alone ----
OtherKeys == Keys \ {<<last.plat, last.user>>}

\* C27: a Push for one user and one platform changes only that user's list for
\* that platform; every other list keeps its content and its TTL
C27_PushFrame ==
    [][(Idle /\ Pushed') =>
           \A k \in Keys \ {<<last'.plat, last'.user>>} : redis'[k] = redis[k]]_vars

\* a Push while the same user's list of the other platform and another user's
\* list of the same platform hold entries with a TTL that has run down
C27_Witness ==
    /\ Pushed
    /\ \E k \in OtherKeys : k[1] = last.plat /\ redis[k].list # <<>> /\ redis[k].ttl < TTLFull
    /\ \E k \in OtherKeys : k[2] = last.user /\ redis[k].list # <<>> /\ redis[k].ttl < TTLFull

\* ---- SaveUsersCurrentStream with nil ----
NilSaved == Requested("SaveUsersCurrentStreamWithNil")

\* C28: SaveUsersCurrentStream called with a nil user or a nil stream writes
\* nothing: no list is created or changed for any user
C28_NilWritesNothing == [][(Idle /\ NilSaved') => redis' = redis]_vars

\* a call with a nil stream for a user whose list holds entries, in a store
\* that also holds the list of another user
C28_Witness ==
    /\ NilSaved
    /\ last.user # NoChan /\ last.sel = NoChan
    /\ last.pre # <<>>
    /\ redis[ListName("twitch", last.user)] = [list |-> last.pre, ttl |-> last.prettl]
    /\ \E k \in OtherKeys : redis[k].list # <<>>

\* ---- Previous on a history of one entry ----
\* C29: a Previous that fails because the history holds only one entry leaves
\* that entry in the history as its head
C29_SingleEntryKept ==
    (Nav(PREVIOUS) /\ Len(last.pre) = 1 /\ Exhausted) =>
        Hist = last.pre /\ PeekHeadNow = Head(last.pre)

\* ---- Resume of a live head ----
\* C30: a successful Resume whose head is live leaves the order and the content
\* of the history list as they were and resets the TTL to 24 hours
C30_ResumeIdentity ==
    (Nav(RESUME) /\ Succeeded /\ last.pre # <<>> /\ Live(Head(last.pre))) =>
        /\ last.sel = Head(last.pre)
        /\ Hist = last.pre
        /\ HistTTL = TTLFull

\* a Twitch Resume of a live head on a history of several entries whose TTL
\* had run down
C30_Witness ==
    /\ Nav(RESUME) /\ Succeeded
    /\ Len(last.pre) >= 2
    /\ last.plat = "twitch" /\ last.ret = Head(last.pre)
    /\ last.prettl < TTLFull
    /\ Live(Head(last.pre))
    /\ Hist = last.pre
    /\ HistTTL = TTLFull

\* ---- a live list that holds a channel more than once ----
\* the live list in the order in which the navigator of the platform scans it
Scanned == IF last.plat = "mixer" /\ last.cmd = NEXT THEN Ascending(last.live) ELSE last.live

\* C31: when the live list holds the head of the history at several
\* positions, Next and Resume take the last of them as the current index:
\* Resume selects the element there, Next the element after it (the first
\* element after the last position)
C31_LastMatchWins ==
    (Navigated /\ last.cmd \in {NEXT, RESUME} /\ last.pre # <<>>
        /\ Occurrences(Head(last.pre), last.live) >= 2) =>
        LET current == LastIndexOf(Head(last.pre), Scanned)
        IN  /\ Succeeded
            /\ last.plat = "twitch" =>
                   findIndexForStreamer(Head(last.pre), last.live) = current - 1
            /\ last.cmd = RESUME => last.sel = Scanned[current]
            /\ last.cmd = NEXT =>
                   last.sel = IF current < Len(Scanned) THEN Scanned[current + 1]
                              ELSE Scanned[1]

\* Twitch Next on the live list [X, X, Y] with head X: the current index is
\* that of the second X and Y is selected
C31_Witness ==
    /\ Nav(NEXT) /\ last.plat = "twitch" /\ Succeeded
    /\ last.pre # <<>>
    /\ Len(last.live) = 3
    /\ last.live[1] = Head(last.pre) /\ last.live[2] = Head(last.pre)
    /\ last.live[3] # Head(last.pre)
    /\ last.sel = last.live[3]

\* ---- Play, Next and Resume that fail ----
FailedForward == Navigated /\ last.cmd \in {PLAY, NEXT, RESUME} /\ ~Succeeded

\* C32 as stated: a Play, Next or Resume that ends in a failure leaves the
\* user's history list and its TTL as they were before the request
C32_FailureLeavesHistory ==
    FailedForward => Hist = last.pre /\ HistTTL = last.prettl

\* C32 amended: that holds of every failure but one: the Mixer Resume that
\* finds none of the history entries among the online follows has removed
\* every entry it looked at, which is all of them, so the list is gone
C32_FailureAndHistory ==
    FailedForward =>
        IF last.plat = "mixer" /\ last.cmd = RESUME /\ last.err = ErrMixerNoneLive
        THEN Hist = <<>> /\ HistTTL = 0 /\ last.pre # <<>>
        ELSE Hist = last.pre /\ HistTTL = last.prettl

\* a Twitch request that has selected a channel and fails on its playlist,
\* with a history whose TTL had run down
C32_Witness ==
    /\ FailedForward
    /\ last.plat = "twitch" /\ last.fault = "rendErr"
    /\ last.sel # NoChan /\ last.err = ErrTwitchStreamURL
    /\ last.pre # <<>> /\ last.sel # Head(last.pre)
    /\ last.prettl < TTLFull
    /\ Hist = last.pre /\ HistTTL = last.prettl

\* ---- Next after Next ----
\* a run of Next requests over distinct live channels that began on a live head
CycleRun ==
    /\ running.plat # "none"
    /\ NoDup(running.live)
    /\ running.start \in Range(running.live)

\* C33: with a fixed live list of n >= 1 distinct channels and a history head
\* that is live, n Next requests one after the other all succeed, select every
\* live channel exactly once, and the last of them selects the channel that was
\* the head at the start
C33_NextCycles ==
    CycleRun =>
        /\ NoChan \notin Range(running.sels)
        /\ NoDup(running.sels)
        /\ Range(running.sels) \subseteq Range(running.live)
        /\ running.start \in Range(running.sels) => Len(running.sels) = Len(running.live)
        /\ Len(running.sels) = Len(running.live) =>
               /\ Range(running.sels) = Range(running.live)
               /\ running.sels[Len(running.sels)] = running.start
               /\ LINDEX0(redis, RaceKey) = running.start

\* three Next requests on Mixer over a live list that is not in ascending
\* order, begun on its middle channel
C33_Witness ==
    /\ CycleRun
    /\ running.plat = "mixer"
    /\ Len(running.live) = 3
    /\ running.live # Ascending(running.live)
    /\ running.start = Ascending(running.live)[2]
    /\ Len(running.sels) = 3
    /\ running.sels[3] = running.start

\* ---- PopHead next to a Push ----
\* the Twitch Previous of p has selected a channel
PreviousSelected(p) ==
    /\ running.plat = "twitch"
    /\ Proc(p).cmd = PREVIOUS
    /\ Proc(p).sel # NoChan

\* C34: PopHead returns the entry that was directly below the removed head,
\* also when a Push of the other request runs between its LPOP and its
\* LINDEX 0: the channel a Previous selects is the head of what its last LPOP
\* left of the list, never a channel pushed since
C34_PopHeadReturnsBelow ==
    \A p \in Procs :
        PreviousSelected(p) => Proc(p).todo # <<>> /\ Proc(p).sel = Head(Proc(p).todo)

\* ---- what a Push does to the other entries ----
\* a stands before b in s
Before(a, b, s) == \E i, j \in 1..Len(s) : i < j /\ s[i] = a /\ s[j] = b

\* C35: a Push of c keeps the relative order of all entries other than c, and
\* the list is longer by exactly one when c was absent and as long as before
\* when c was present
C35_PushKeepsOthers ==
    Pushed =>
        /\ \A a, b \in Chans \ {last.sel} : Before(a, b, Hist) <=> Before(a, b, last.pre)
        /\ Len(Hist) = IF last.sel \in Range(last.pre) THEN Len(last.pre)
                       ELSE Len(last.pre) + 1

\* a Push of the middle entry of a list of three
C35_Witness ==
    /\ Pushed
    /\ Len(last.pre) = 3
    /\ last.sel = last.pre[2]
    /\ Len(Hist) = 3
    /\ Before(last.pre[1], last.pre[3], Hist)

\* ---- where the ids of a history come from ----
\* C36: every id in a user's history list is a channel that an earlier request
\* of that user on that platform selected and returned without an error, and
\* the list is never longer than the number of distinct channels so selected
C36_OnlySelectedIds ==
    \A k \in Keys :
        /\ Range(redis[k].list) \subseteq running.selected[k]
        /\ Len(redis[k].list) <= Cardinality(running.selected[k])

\* a user who has selected two channels and has one of them in the list (the
\* store could not be reached when the other was selected), next to a user who
\* has selected another channel
C36_Witness ==
    \E k, other \in Keys :
        /\ k[1] = other[1] /\ k[2] # other[2]
        /\ Cardinality(running.selected[k]) = 2
        /\ Len(redis[k].list) = 1
        /\ running.selected[other] # {}
        /\ ~(running.selected[other] \subseteq running.selected[k])

\* ---- the selected variant is one of the playlist ----
\* C37: for every playlist with at least one variant and every requested
\* quality (the empty string and a string that is the prefix of no label
\* among them) the selector returns a variant of that playlist, never nil
C37_SelectsMember ==
    (Selecting /\ last.variants # <<>>) =>
        /\ last.variant # NoVariant
        /\ last.variant \in DOMAIN last.variants

\* the empty quality asked of a playlist of three whose last label is
\* audio_only: the first variant is selected
C37_Witness ==
    /\ Selecting
    /\ last.streamQuality = <<>>
    /\ Len(last.variants) = 3
    /\ AudioOnlyAt = {3}
    /\ last.variant = 1

\* ---- the two navigators side by side ----
OtherPlatform == IF last.plat = "twitch" THEN "mixer" ELSE "twitch"

\* the store in which the user's list of the other platform is the history
\* that the request in last found
OtherStore ==
    [redis EXCEPT ![ListName(OtherPlatform, last.user)] =
                      [list |-> last.pre, ttl |-> last.prettl]]

\* C38: started from the same history and given the same live list, sorted by
\* ascending channel id, the Twitch navigator and the Mixer navigator select
\* the same channel, or both fail, and leave the same history, for every
\* command
C38_NavigatorsAgree ==
    (Navigated /\ last.live = Ascending(last.live)) =>
        \A rnd \in 0..(IF Len(last.live) = 0 THEN 0 ELSE Len(last.live) - 1) :
            LET res == Provider(OtherPlatform, last.cmd, OtherStore, last.user, last.live,
                                "none", rnd)
            IN  /\ (res.err = NoErr) <=> Succeeded
                /\ Succeeded => res.sel = last.sel
                /\ res.db[ListName(OtherPlatform, last.user)].list = Hist

====
